---- MODULE Spec2Model ----
(***************************************************************************)
(* Conversation state of the SwasthAI chat front end: the App component    *)
(* (chats, activeChatId, messages, loadingChatId, handleNewChat,           *)
(* handleSendMessage), the backend client chatAPI.sendMessage, and the     *)
(* speech bridge of the ChatArea component.                                *)
(*                                                                         *)
(* A handler runs to completion on the UI event loop; the functional state *)
(* updates it queues are applied in order, so a handler is one atomic      *)
(* action.  handleSendMessage suspends once, at the await of the backend   *)
(* call: its first half is SendMessage, its second half Resolve or Reject. *)
(* One handler run reads one value of the clock.                           *)
(***************************************************************************)
EXTENDS Integers, Sequences, FiniteSets, TLC

VARIABLES
    now,                \* Date.now()
    \* App
    chats,              \* useState<Chat[]>: newest first
    activeChatId,       \* useState<string | null>
    messages,           \* useState<{ [chatId]: Message[] }>
    loadingChatId,      \* useState<string | null>
    sends,              \* the handleSendMessage calls made so far, in call order:
                        \* the locals each call keeps across its await (chatId,
                        \* loadingMessageId, text, lang) and its outcome
    \* ChatArea
    input,              \* useState('')
    isListening,        \* useState(false)
    selectedLanguage,   \* useState('en-US')
    finalTranscriptRef, \* useRef('')
    recs,               \* the SpeechRecognition objects that can still deliver
                        \* events; the last one is recognitionRef.current
    timers,             \* the pending setTimeout callbacks of onerror and onend
    nSessions,          \* number of recognition sessions started so far
    isSpeechSupported,  \* useState(false), set by the speech-recognition effect
    utterances,         \* the queue of window.speechSynthesis: the utterance
                        \* being spoken, then the ones waiting
    platform            \* which speech APIs the window object has

appVars == <<chats, activeChatId, messages, loadingChatId, sends>>
voiceVars == <<input, isListening, selectedLanguage, finalTranscriptRef, recs, timers,
               nSessions, isSpeechSupported, utterances, platform>>
vars == <<now, chats, activeChatId, messages, loadingChatId, sends,
          input, isListening, selectedLanguage, finalTranscriptRef, recs, timers,
          nSessions, isSpeechSupported, utterances, platform>>

-----------------------------------------------------------------------------
\* Bounds of the model.
MaxClock == 2
MaxSends == 2
MaxChats == 2
MaxTextLen == 32
\* Bounds of the runs that use the microphone.
MaxVoiceClock == 1
MaxVoiceSends == 2
MaxVoiceChats == 1
MaxSessions == 1
MaxFinals == 1
\* Bounds of the runs that follow the recognition sessions on every platform.
MaxListenSessions == 2
MaxListenSends == 1
\* Bound of the runs that enumerate the language codes of the replies.
MaxLangSends == 1
\* Bound of the runs that enumerate the outcomes of the backend request.
MaxApiSends == 1

-----------------------------------------------------------------------------
\* Texts are sequences of tokens; a user text has one token per character.
Rep(c, n) == [i \in 1..n |-> c]

DefaultTitle == <<"N", "e", "w", " ", "C", "h", "a", "t">>
Ellipsis == <<".", ".", ".">>
TitleLimit == 30

Texts == { Rep("b", 31) }

Null == "null"

\* Date.now().toString()
IdOf(n) == ToString(n)

\* text.slice(0, k)
Slice(text, k) == SubSeq(text, 1, IF Len(text) < k THEN Len(text) ELSE k)

\* TitleOf with the marker added from 30 characters on
TitleOfMarkerAtLimit(text) ==
    Slice(text, TitleLimit) \o (IF Len(text) >= TitleLimit THEN Ellipsis ELSE <<>>)

\* text.slice(0, 30) + (text.length > 30 ? '...' : '')
TitleOf(text) ==
    Slice(text, TitleLimit) \o (IF Len(text) > TitleLimit THEN Ellipsis ELSE <<>>)

NewChatRecord(t) ==
    [id |-> IdOf(t), title |-> DefaultTitle, lastMessage |-> <<>>, timestamp |-> t]

UserMessage(t, text) ==
    [id |-> IdOf(t), text |-> text, sender |-> "user", isLoading |-> FALSE, lang |-> Null]

LoadingMessage(id) ==
    [id |-> id, text |-> <<>>, sender |-> "bot", isLoading |-> TRUE, lang |-> Null]

\* prev[chatId] || []
Get(m, id) == IF id \in DOMAIN m THEN m[id] ELSE <<>>

\* { ...prev, [chatId]: v }
Put(m, id, v) == [k \in (DOMAIN m) \cup {id} |-> IF k = id THEN v ELSE m[k]]

\* prevChats.map(chat => ...) of the user-text summary update
SummaryOnSend(cs, chatId, text, t) ==
    [i \in 1..Len(cs) |->
        IF cs[i].id = chatId /\ cs[i].title = DefaultTitle
        THEN [cs[i] EXCEPT !.title = TitleOf(text), !.lastMessage = text, !.timestamp = t]
        ELSE IF cs[i].id = chatId
        THEN [cs[i] EXCEPT !.lastMessage = text, !.timestamp = t]
        ELSE cs[i]]

\* SummaryOnReply moving the chat that got the reply to the front
SummaryOnReplyMovingToFront(cs, chatId, reply, t) ==
    LET hit == { i \in 1..Len(cs) : cs[i].id = chatId }
        Updated(i) == [cs[i] EXCEPT !.lastMessage = reply, !.timestamp = t]
    IN  IF hit = {} THEN cs
        ELSE LET i == CHOOSE k \in hit : TRUE
             IN  <<Updated(i)>> \o SubSeq(cs, 1, i - 1) \o SubSeq(cs, i + 1, Len(cs))

\* prevChats.map(chat => ...) of the reply summary update
SummaryOnReply(cs, chatId, reply, t) ==
    [i \in 1..Len(cs) |->
        IF cs[i].id = chatId
        THEN [cs[i] EXCEPT !.lastMessage = reply, !.timestamp = t]
        ELSE cs[i]]

\* ReplaceById replacing by position, the last message, instead of by id
ReplaceLast(ms, id, newMsg) ==
    [i \in 1..Len(ms) |-> IF i = Len(ms) THEN newMsg ELSE ms[i]]

\* (prev[chatId] || []).map(msg => msg.id === loadingMessageId ? newMsg : msg)
ReplaceById(ms, id, newMsg) ==
    [i \in 1..Len(ms) |-> IF ms[i].id = id THEN newMsg ELSE ms[i]]

\* chatAPI.sendMessage: the message of the Error it throws for a failure cause
\* (the message of the Error thrown for a bad status, or of fetch's own error)
HttpCause(status) == <<"HTTP error! status: ", ToString(status)>>
NetworkCause == <<"Failed to fetch">>
ApiErrorMessage(cause) == <<"Failed to get response: ">> \o cause

Causes == { HttpCause(500) }
\* the backend's reply to the i-th call; the replies to different calls are
\* distinct, so that a reply that lands in another call's placeholder shows
ReplyTo(i) == <<"reply", ToString(i)>>
ReplyLangs == { "en" }

\* the text of the bot message shown for a failed call
ErrorText(errorMessage) ==
    <<"Sorry, I encountered an error: ">> \o errorMessage
        \o <<". Please make sure the backend server is running.">>

ReplyMessage(id, reply, lang) ==
    [id |-> id, text |-> reply, sender |-> "bot", isLoading |-> FALSE, lang |-> lang]

ErrorMessage(id, errorMessage) ==
    [id |-> id, text |-> ErrorText(errorMessage), sender |-> "bot",
     isLoading |-> FALSE, lang |-> Null]

-----------------------------------------------------------------------------
\* ChatArea: texts, languages and recognition objects

Space == " "

RECURSIVE TrimStart(_)
TrimStart(t) == IF t # <<>> /\ Head(t) = Space THEN TrimStart(Tail(t)) ELSE t

RECURSIVE TrimEnd(_)
TrimEnd(t) ==
    IF t # <<>> /\ t[Len(t)] = Space THEN TrimEnd(SubSeq(t, 1, Len(t) - 1)) ELSE t

\* text.trim()
Trim(t) == TrimEnd(TrimStart(t))

Languages == { "en-US", "hi-IN", "te-IN" }
Fragments == { <<"a">> }
TypedTexts == { <<"h", "i">> }

\* The value of map[key] for an object literal map: its own property with
\* that name, else the property of that name it inherits from
\* Object.prototype (a function or an object, never one of the map's
\* strings), else undefined.
Undefined == "undefined"
ObjectPrototypeKeys ==
    { "constructor", "toString", "toLocaleString", "valueOf", "hasOwnProperty",
      "isPrototypeOf", "propertyIsEnumerable", "__proto__" }
Inherited(key) == "Object.prototype." \o key

Lookup(map, key) ==
    IF key \in DOMAIN map THEN map[key]
    ELSE IF key \in ObjectPrototypeKeys THEN Inherited(key)
    ELSE Undefined

\* value || fallback, for a value that is undefined, a string, or an object
OrElse(value, fallback) == IF value \in {Undefined, ""} THEN fallback ELSE value

\* const langMap = { 'en-US': 'en', 'hi-IN': 'hi', 'te-IN': 'te' }
LangMap == ("en-US" :> "en") @@ ("hi-IN" :> "hi") @@ ("te-IN" :> "te")

\* langMap[selectedLanguage] || fallback
LangCode(tag, fallback) == OrElse(Lookup(LangMap, tag), fallback)

\* new SpeechRecognition() with the handlers of one run of the effect: they
\* close over that render's onSendMessage (hence its activeChatId) and
\* selectedLanguage
NewRecognition(act, lang) ==
    [status |-> "idle", closureActive |-> act, closureLang |-> lang]

\* One run of the speech-recognition effect after a render that changed
\* selectedLanguage or onSendMessage: the cleanup aborts the object in
\* recognitionRef.current, the effect body installs a new one.  An object with
\* no session open delivers no more events and is dropped from recs.
Reinit(rs, act, lang) ==
    LET n == Len(rs)
        cur == rs[n]
        kept == IF cur.status = "idle" THEN SubSeq(rs, 1, n - 1)
                ELSE IF cur.status \in {"started", "stopping"}
                THEN [rs EXCEPT ![n].status = "aborted"]
                ELSE rs
    IN  Append(kept, NewRecognition(act, lang))

\* the number of final fragments accumulated in the transcript buffer
Finals(t) == Cardinality({ i \in 1..Len(t) : t[i] = Space })

-----------------------------------------------------------------------------
\* window.SpeechRecognition || window.webkitSpeechRecognition, and
\* 'speechSynthesis' in window
Platforms == [recognition : BOOLEAN, synthesis : BOOLEAN]
FullPlatform == [recognition |-> TRUE, synthesis |-> TRUE]

\* the state after the first render and its effects, on platform p
InitOn(p) ==
    /\ now = 0
    /\ chats = <<>>
    /\ activeChatId = Null
    /\ messages = <<>>
    /\ loadingChatId = Null
    /\ sends = <<>>
    /\ input = <<>>
    /\ isListening = FALSE
    /\ selectedLanguage = "en-US"
    /\ finalTranscriptRef = <<>>
    /\ recs = IF p.recognition THEN <<NewRecognition(Null, "en-US")>> ELSE <<>>
    /\ timers = <<>>
    /\ nSessions = 0
    /\ isSpeechSupported = p.recognition
    /\ utterances = <<>>
    /\ platform = p

Init == InitOn(FullPlatform)

\* The clock advances between handler runs.
Tick ==
    /\ now < MaxClock
    /\ now' = now + 1
    /\ UNCHANGED appVars
    /\ UNCHANGED voiceVars

\* RunEffect taking the SpeechRecognition constructor for granted
RunEffectAssumingConstructor(act, lang) ==
    /\ recs' = IF recs = <<>> THEN <<NewRecognition(act, lang)>> ELSE Reinit(recs, act, lang)
    /\ isSpeechSupported' = TRUE

\* The speech-recognition effect runs again, for the render with active chat
\* act and language lang; without a SpeechRecognition constructor neither its
\* cleanup nor its body does anything.
RunEffect(act, lang) ==
    IF platform.recognition
    THEN /\ recs' = Reinit(recs, act, lang)
         /\ isSpeechSupported' = TRUE
    ELSE UNCHANGED <<recs, isSpeechSupported>>

\* App re-renders after a handler changed its state: handleSendMessage is a
\* new function, so the speech-recognition effect of ChatArea runs again.
Rerender(act) == RunEffect(act, selectedLanguage)

\* HandleNewChat without the message sequence of the new chat
HandleNewChatNoSequence ==
    /\ Len(chats) < MaxChats
    /\ chats' = <<NewChatRecord(now)>> \o chats
    /\ activeChatId' = IdOf(now)
    /\ Rerender(IdOf(now))
    /\ UNCHANGED <<now, messages, loadingChatId, sends>>
    /\ UNCHANGED <<input, isListening, selectedLanguage, finalTranscriptRef, timers,
                   nSessions, utterances, platform>>

HandleNewChat ==
    /\ Len(chats) < MaxChats
    /\ chats' = <<NewChatRecord(now)>> \o chats
    /\ activeChatId' = IdOf(now)
    /\ messages' = Put(messages, IdOf(now), <<>>)
    /\ Rerender(IdOf(now))
    /\ UNCHANGED <<now, loadingChatId, sends>>
    /\ UNCHANGED <<input, isListening, selectedLanguage, finalTranscriptRef, timers,
                   nSessions, utterances, platform>>

\* onChatSelect={setActiveChatId}, called by the sidebar with the id of a chat
SelectChat(id) ==
    /\ id # activeChatId
    /\ activeChatId' = id
    /\ Rerender(id)
    /\ UNCHANGED <<now, chats, messages, loadingChatId, sends>>
    /\ UNCHANGED <<input, isListening, selectedLanguage, finalTranscriptRef, timers,
                   nSessions, utterances, platform>>

\* title, lastMessage and timestamp of the chat with the given id (of the
\* first one in the collection), or NoSummary when there is none
NoSummary == [title |-> <<>>, lastMessage |-> <<>>, timestamp |-> -1]

SummaryOf(cs, chatId) ==
    LET found == { i \in 1..Len(cs) : cs[i].id = chatId } IN
    IF found = {} THEN NoSummary
    ELSE LET i == CHOOSE k \in found : \A m \in found : k <= m
         IN  [title |-> cs[i].title, lastMessage |-> cs[i].lastMessage,
              timestamp |-> cs[i].timestamp]

\* handleSendMessage up to its await.  closureActive is the activeChatId of
\* the render whose handleSendMessage is called.
SendMessage(closureActive, text, lang) ==
    LET created == closureActive = Null
        chatId == IF created THEN IdOf(now) ELSE closureActive
        userMessage == UserMessage(now, text)
        chats1 == IF created THEN <<NewChatRecord(now)>> \o chats ELSE chats
        messages1 ==
            IF created
            THEN Put(messages, chatId, <<userMessage>>)
            ELSE Put(messages, chatId, Append(Get(messages, chatId), userMessage))
        loadingMessageId == IdOf(now + 1)
        messages2 == Put(messages1, chatId,
                         Append(Get(messages1, chatId), LoadingMessage(loadingMessageId)))
    IN  /\ Len(sends) < MaxSends
        /\ chats' = SummaryOnSend(chats1, chatId, text, now)
        /\ activeChatId' = IF created THEN chatId ELSE activeChatId
        /\ messages' = messages2
        /\ loadingChatId' = chatId
        /\ sends' = Append(sends,
                [chatId |-> chatId, loadingMessageId |-> loadingMessageId,
                 text |-> text, lang |-> lang, status |-> "pending",
                 \* the fetch calls made by this call's chatAPI.sendMessage
                 requests |-> 1,
                 \* what the call did and found, kept for the properties below
                 userMessageId |-> IdOf(now), created |-> created,
                 at |-> Len(messages2[chatId]),
                 before |-> SummaryOf(chats, chatId),
                 pendingAtCall |-> { i \in 1..Len(sends) : sends[i].status = "pending" },
                 shown |-> <<>>])
        /\ Rerender(chatId)
        /\ UNCHANGED now

\* handleSubmit, for the text in the input box
HandleSubmit ==
    /\ ~isListening
    /\ Trim(input) # <<>>
    /\ SendMessage(activeChatId, Trim(input), LangCode(selectedLanguage, "auto"))
    /\ input' = <<>>
    /\ UNCHANGED <<isListening, selectedLanguage, finalTranscriptRef, timers, nSessions,
                   utterances, platform>>

\* the input's onChange
TypeInput(text) ==
    /\ ~isListening
    /\ input # text
    /\ input' = text
    /\ UNCHANGED now
    /\ UNCHANGED appVars
    /\ UNCHANGED <<isListening, selectedLanguage, finalTranscriptRef, recs,
                   isSpeechSupported, timers, nSessions, utterances, platform>>

\* the user types a text into the empty input box and submits it: onChange,
\* then handleSubmit
Submit(text) ==
    /\ ~isListening
    /\ Trim(text) # <<>>
    /\ SendMessage(activeChatId, Trim(text), LangCode(selectedLanguage, "auto"))
    /\ input' = <<>>
    /\ UNCHANGED <<isListening, selectedLanguage, finalTranscriptRef, timers, nSessions,
                   utterances, platform>>

\* the backend call of call i returns: the try block after the await, and finally
Resolve(i, lang) ==
    LET s == sends[i]
        reply == ReplyTo(i)
    IN
    /\ s.status = "pending"
    /\ messages' = Put(messages, s.chatId,
                       ReplaceById(Get(messages, s.chatId), s.loadingMessageId,
                                   ReplyMessage(s.loadingMessageId, reply, lang)))
    /\ chats' = SummaryOnReply(chats, s.chatId, reply, now)
    /\ loadingChatId' = Null
    /\ sends' = [sends EXCEPT ![i].status = "resolved", ![i].shown = reply]
    /\ Rerender(activeChatId)
    /\ UNCHANGED <<now, activeChatId>>
    /\ UNCHANGED <<input, isListening, selectedLanguage, finalTranscriptRef, timers,
                   nSessions, utterances, platform>>

\* Reject updating the chat summary with the error text, as a reply would
RejectUpdatingSummary(i, cause) ==
    LET s == sends[i]
        errorMessage == ApiErrorMessage(cause)
    IN
    /\ s.status = "pending"
    /\ messages' = Put(messages, s.chatId,
                       ReplaceById(Get(messages, s.chatId), s.loadingMessageId,
                                   ErrorMessage(s.loadingMessageId, errorMessage)))
    /\ chats' = SummaryOnReply(chats, s.chatId, ErrorText(errorMessage), now)
    /\ loadingChatId' = Null
    /\ sends' = [sends EXCEPT ![i].status = "rejected", ![i].shown = ErrorText(errorMessage)]
    /\ Rerender(activeChatId)
    /\ UNCHANGED <<now, activeChatId>>
    /\ UNCHANGED <<input, isListening, selectedLanguage, finalTranscriptRef, timers,
                   nSessions, utterances, platform>>

\* Reject with one automatic retry: the first failure sends the request again
RejectRetrying(i, cause) ==
    LET s == sends[i]
        errorMessage == ApiErrorMessage(cause)
    IN
    /\ s.status = "pending"
    /\ IF s.requests < 2
       THEN /\ sends' = [sends EXCEPT ![i].requests = s.requests + 1]
            /\ UNCHANGED <<messages, loadingChatId, recs, isSpeechSupported>>
       ELSE /\ messages' = Put(messages, s.chatId,
                       ReplaceById(Get(messages, s.chatId), s.loadingMessageId,
                                   ErrorMessage(s.loadingMessageId, errorMessage)))
            /\ loadingChatId' = Null
            /\ sends' = [sends EXCEPT ![i].status = "rejected",
                                      ![i].shown = ErrorText(errorMessage)]
            /\ Rerender(activeChatId)
    /\ UNCHANGED <<now, chats, activeChatId>>
    /\ UNCHANGED <<input, isListening, selectedLanguage, finalTranscriptRef, timers,
                   nSessions, utterances, platform>>

\* Reject without the finally block
RejectKeepingIndicator(i, cause) ==
    LET s == sends[i]
        errorMessage == ApiErrorMessage(cause)
    IN
    /\ s.status = "pending"
    /\ messages' = Put(messages, s.chatId,
                       ReplaceById(Get(messages, s.chatId), s.loadingMessageId,
                                   ErrorMessage(s.loadingMessageId, errorMessage)))
    /\ sends' = [sends EXCEPT ![i].status = "rejected", ![i].shown = ErrorText(errorMessage)]
    /\ Rerender(activeChatId)
    /\ UNCHANGED <<now, chats, activeChatId, loadingChatId>>
    /\ UNCHANGED <<input, isListening, selectedLanguage, finalTranscriptRef, timers,
                   nSessions, utterances, platform>>

\* the backend call of call i fails: the catch block, and finally
Reject(i, cause) ==
    LET s == sends[i]
        errorMessage == ApiErrorMessage(cause)
    IN
    /\ s.status = "pending"
    /\ messages' = Put(messages, s.chatId,
                       ReplaceById(Get(messages, s.chatId), s.loadingMessageId,
                                   ErrorMessage(s.loadingMessageId, errorMessage)))
    /\ loadingChatId' = Null
    /\ sends' = [sends EXCEPT ![i].status = "rejected", ![i].shown = ErrorText(errorMessage)]
    /\ Rerender(activeChatId)
    /\ UNCHANGED <<now, chats, activeChatId>>
    /\ UNCHANGED <<input, isListening, selectedLanguage, finalTranscriptRef, timers,
                   nSessions, utterances, platform>>

\* The conversation driven from the keyboard and the sidebar.
Next ==
    \/ Tick
    \/ HandleNewChat
    \/ \E i \in 1..Len(chats) : SelectChat(chats[i].id)
    \/ \E text \in Texts : Submit(text)
    \/ \E i \in 1..Len(sends), lang \in ReplyLangs : Resolve(i, lang)
    \/ \E i \in 1..Len(sends), cause \in Causes : Reject(i, cause)

Spec == Init /\ [][Next]_vars

\* chatAPI.sendMessage: what the fetch call of a request comes to.  fetch
\* rejects when the network call cannot complete; otherwise it resolves with a
\* response that has a status and a body, and response.json() throws on a
\* body that is not JSON.
Statuses == { 200, 299, 300, 404, 500 }
Outcomes ==
    { [fetch |-> "rejects", status |-> 0, body |-> "none"] }
    \cup { [fetch |-> "responds", status |-> st, body |-> b] :
                st \in Statuses, b \in {"json", "malformed"} }

\* Ok counting the redirect statuses as success
OkBelow400(status) == status >= 200 /\ status <= 399

\* response.ok
Ok(status) == status >= 200 /\ status <= 299

JsonCause == <<"Unexpected token < in JSON at position 0">>

\* chatAPI.sendMessage returns data
Returns(o) == o.fetch = "responds" /\ Ok(o.status) /\ o.body = "json"

\* the message of the error caught by the catch block of chatAPI.sendMessage
FailureCause(o) ==
    IF o.fetch = "rejects" THEN NetworkCause
    ELSE IF ~Ok(o.status) THEN HttpCause(o.status)
    ELSE JsonCause

\* the request of call i comes to outcome o: chatAPI.sendMessage returns or
\* throws, and handleSendMessage continues after its await
Complete(i, o, lang) ==
    IF Returns(o) THEN Resolve(i, lang) ELSE Reject(i, FailureCause(o))

NextApi ==
    \/ Tick
    \/ HandleNewChat
    \/ Len(sends) < MaxApiSends /\ \E text \in Texts : Submit(text)
    \/ \E i \in 1..Len(sends), o \in Outcomes, lang \in ReplyLangs : Complete(i, o, lang)

SpecApi == Init /\ [][NextApi]_vars

\* The summary update of handleSendMessage, applied to texts of every length
\* around the title limit: the i-th character of a text depends on i.
Ramp(n) == [i \in 1..n |-> ToString(i % 10)]
SummaryTexts == { Ramp(1) } \cup { Ramp(n) : n \in (TitleLimit - 2)..MaxTextLen }

NextSummary ==
    \/ Tick
    \/ HandleNewChat
    \/ \E text \in SummaryTexts : Submit(text)

SpecSummary == Init /\ [][NextSummary]_vars

\* The titles of the chats over whole conversations: first messages of one
\* character, of more than 30 characters, and the text "New Chat" itself.
TitleTexts == { DefaultTitle, Ramp(1), Ramp(TitleLimit + 1) }

NextTitle ==
    \/ Tick
    \/ HandleNewChat
    \/ \E text \in TitleTexts : Submit(text)
    \/ \E i \in 1..Len(sends), lang \in ReplyLangs : Resolve(i, lang)
    \/ \E i \in 1..Len(sends), cause \in Causes : Reject(i, cause)

SpecTitle == Init /\ [][NextTitle]_vars

-----------------------------------------------------------------------------
\* ChatArea: the speech bridge

Current == recs[Len(recs)]

\* the language select's onChange (the select is rendered when speech is
\* supported and disabled while listening); the effect runs again for the new
\* selectedLanguage
SelectLanguage(l) ==
    /\ isSpeechSupported
    /\ ~isListening
    /\ l # selectedLanguage
    /\ selectedLanguage' = l
    /\ RunEffect(activeChatId, l)
    /\ UNCHANGED now
    /\ UNCHANGED appVars
    /\ UNCHANGED <<input, isListening, finalTranscriptRef, timers, nSessions, utterances,
                   platform>>

\* start() on the current object would open a session
Startable == recs # <<>> /\ Current.status = "idle"

\* handleMicClick while not listening.  start() throws InvalidStateError when
\* the object's session has not ended yet; the catch block only logs.
StartListening ==
    /\ recs # <<>>
    /\ ~isListening
    /\ finalTranscriptRef' = <<>>
    /\ input' = <<>>
    /\ IF Current.status = "idle"
       THEN /\ recs' = [recs EXCEPT ![Len(recs)].status = "started"]
            /\ isListening' = TRUE
            /\ nSessions' = nSessions + 1
       ELSE UNCHANGED <<recs, isListening, nSessions>>
    /\ UNCHANGED now
    /\ UNCHANGED appVars
    /\ UNCHANGED <<selectedLanguage, timers, isSpeechSupported, utterances, platform>>

\* handleMicClick while listening.  stop() on an object with no session open
\* does nothing.
StopListening ==
    /\ recs # <<>>
    /\ isListening
    /\ recs' = IF Current.status = "started"
               THEN [recs EXCEPT ![Len(recs)].status = "stopping"]
               ELSE recs
    /\ isListening' = FALSE
    /\ UNCHANGED now
    /\ UNCHANGED appVars
    /\ UNCHANGED <<input, selectedLanguage, finalTranscriptRef, timers,
                   nSessions, isSpeechSupported, utterances, platform>>

\* recognition.onresult of object k, for an event with one new result
OnResult(k, fragment, isFinal) ==
    LET finalTranscript == IF isFinal THEN fragment \o <<Space>> ELSE <<>>
        interimTranscript == IF isFinal THEN <<>> ELSE fragment
        ref1 == finalTranscriptRef \o finalTranscript
    IN
    /\ recs[k].status \in {"started", "stopping"}
    /\ isFinal => Finals(finalTranscriptRef) < MaxFinals
    /\ finalTranscriptRef' = ref1
    /\ input' = Trim(ref1 \o interimTranscript)
    /\ UNCHANGED now
    /\ UNCHANGED appVars
    /\ UNCHANGED <<isListening, selectedLanguage, recs, isSpeechSupported, timers,
                   nSessions, utterances, platform>>

\* setTimeout(() => { onSendMessage(transcriptToSend, backendLang); ... }, 100)
Timer(rec, transcript, clearsRef) ==
    [transcript |-> transcript, lang |-> LangCode(rec.closureLang, "en"),
     closureActive |-> rec.closureActive, clearsRef |-> clearsRef]

\* recognition.onerror of object k; the platform delivers the end event next
OnError(k) ==
    LET transcriptToSend == Trim(finalTranscriptRef) IN
    /\ recs[k].status \in {"started", "stopping", "aborted"}
    /\ isListening' = FALSE
    /\ finalTranscriptRef' = <<>>
    /\ timers' = IF transcriptToSend # <<>>
                 THEN Append(timers, Timer(recs[k], transcriptToSend, FALSE))
                 ELSE timers
    /\ recs' = [recs EXCEPT ![k].status = "erred"]
    /\ UNCHANGED now
    /\ UNCHANGED appVars
    /\ UNCHANGED <<input, selectedLanguage, nSessions, isSpeechSupported, utterances,
                   platform>>

\* recs once the session of object k has ended
Ended(rs, k) ==
    IF k = Len(rs) THEN [rs EXCEPT ![k].status = "idle"]
    ELSE SubSeq(rs, 1, k - 1) \o SubSeq(rs, k + 1, Len(rs))

\* recognition.onend of object k
OnEnd(k) ==
    LET transcriptToSend == Trim(finalTranscriptRef) IN
    /\ recs[k].status \in {"started", "stopping", "aborted", "erred"}
    /\ isListening' = FALSE
    /\ IF transcriptToSend # <<>>
       THEN /\ timers' = Append(timers, Timer(recs[k], transcriptToSend, TRUE))
            /\ UNCHANGED finalTranscriptRef
       ELSE /\ finalTranscriptRef' = <<>>
            /\ UNCHANGED timers
    /\ recs' = Ended(recs, k)
    /\ UNCHANGED now
    /\ UNCHANGED appVars
    /\ UNCHANGED <<input, selectedLanguage, nSessions, isSpeechSupported, utterances,
                   platform>>

\* the oldest pending timeout fires
TimerFire ==
    /\ timers # <<>>
    /\ SendMessage(Head(timers).closureActive, Head(timers).transcript, Head(timers).lang)
    /\ input' = <<>>
    /\ finalTranscriptRef' = IF Head(timers).clearsRef THEN <<>> ELSE finalTranscriptRef
    /\ timers' = Tail(timers)
    /\ UNCHANGED <<isListening, selectedLanguage, nSessions, utterances, platform>>

\* The conversation driven from the keyboard, the sidebar and the microphone.
NextVoice ==
    \/ now < MaxVoiceClock /\ Tick
    \/ Len(chats) < MaxVoiceChats /\ HandleNewChat
    \/ \E i \in 1..Len(chats) : SelectChat(chats[i].id)
    \/ \E text \in TypedTexts : TypeInput(text)
    \/ Len(sends) < MaxVoiceSends /\ HandleSubmit
    \/ \E i \in 1..Len(sends), lang \in ReplyLangs : Resolve(i, lang)
    \/ \E i \in 1..Len(sends), cause \in Causes : Reject(i, cause)
    \/ \E l \in Languages : SelectLanguage(l)
    \/ (Startable => nSessions < MaxSessions) /\ StartListening
    \/ StopListening
    \/ \E k \in 1..Len(recs), f \in Fragments, isFinal \in BOOLEAN : OnResult(k, f, isFinal)
    \/ \E k \in 1..Len(recs) : OnError(k)
    \/ \E k \in 1..Len(recs) : OnEnd(k)
    \/ Len(sends) < MaxVoiceSends /\ TimerFire

SpecVoice == Init /\ [][NextVoice]_vars

\* The microphone, the keyboard and New Chat, on a window with or without the
\* speech APIs.
InitPlatform == \E p \in Platforms : InitOn(p)

NextListen ==
    \/ Len(chats) < MaxVoiceChats /\ HandleNewChat
    \/ Len(sends) < MaxListenSends /\ \E text \in TypedTexts : Submit(text)
    \/ \E l \in Languages : SelectLanguage(l)
    \/ (Startable => nSessions < MaxListenSessions) /\ StartListening
    \/ StopListening
    \/ \E k \in 1..Len(recs), f \in Fragments, isFinal \in BOOLEAN : OnResult(k, f, isFinal)
    \/ \E k \in 1..Len(recs) : OnError(k)
    \/ \E k \in 1..Len(recs) : OnEnd(k)
    \/ Len(sends) < MaxListenSends /\ TimerFire

SpecListen == InitPlatform /\ [][NextListen]_vars

\* The same, with one recognition session and without the choice of language.
NextPlatform ==
    \/ Len(chats) < MaxVoiceChats /\ HandleNewChat
    \/ Len(sends) < MaxListenSends /\ \E text \in TypedTexts : Submit(text)
    \/ (Startable => nSessions < MaxSessions) /\ StartListening
    \/ StopListening
    \/ \E k \in 1..Len(recs), f \in Fragments, isFinal \in BOOLEAN : OnResult(k, f, isFinal)
    \/ \E k \in 1..Len(recs) : OnError(k)
    \/ \E k \in 1..Len(recs) : OnEnd(k)
    \/ Len(sends) < MaxListenSends /\ TimerFire

SpecPlatform == InitPlatform /\ [][NextPlatform]_vars

-----------------------------------------------------------------------------
\* ChatArea: text to speech

\* const langCodeMap = { 'en': 'en-US', 'hi': 'hi-IN', 'te': 'te-IN', 'kn': 'te-IN' }
LangCodeMap ==
    ("en" :> "en-US") @@ ("hi" :> "hi-IN") @@ ("te" :> "te-IN") @@ ("kn" :> "te-IN")

\* langCodeMap[lang] || 'en-US'
SpeechLang(lang) == OrElse(Lookup(LangCodeMap, lang), "en-US")

\* Cancel leaving the queue as it is
CancelNothing(queue) == queue

\* speechSynthesis.cancel(): removes every utterance from the queue, the one
\* being spoken included
Cancel(queue) == <<>>

\* speechSynthesis.speak(utterance)
Speak(queue, utterance) == Append(queue, utterance)

\* the messages ChatArea displays
Displayed == IF activeChatId = Null THEN <<>> ELSE Get(messages, activeChatId)

\* speakText(message.text, message.lang || 'en'), from the speaker button of
\* the k-th displayed message
SpeakText(k) ==
    LET message == Displayed[k]
        lang == IF message.lang = Null THEN "en" ELSE OrElse(message.lang, "en")
        queue == Cancel(utterances)
    IN
    /\ platform.synthesis
    /\ k \in 1..Len(Displayed)
    /\ message.sender = "bot"
    /\ message.text # <<>>
    /\ utterances' = Speak(queue,
                           [text |-> message.text, lang |-> SpeechLang(lang),
                            \* how many utterances were in the queue at the call
                            found |-> Len(utterances)])
    /\ UNCHANGED now
    /\ UNCHANGED appVars
    /\ UNCHANGED <<input, isListening, selectedLanguage, finalTranscriptRef, recs, timers,
                   nSessions, isSpeechSupported, platform>>

\* the utterance being spoken comes to its end
UtteranceEnd ==
    /\ utterances # <<>>
    /\ utterances' = Tail(utterances)
    /\ UNCHANGED now
    /\ UNCHANGED appVars
    /\ UNCHANGED <<input, isListening, selectedLanguage, finalTranscriptRef, recs, timers,
                   nSessions, isSpeechSupported, platform>>

\* The conversation with replies read aloud.
NextSpeak ==
    \/ Tick
    \/ \E text \in Texts : Submit(text)
    \/ \E i \in 1..Len(sends), lang \in ReplyLangs : Resolve(i, lang)
    \/ \E i \in 1..Len(sends), cause \in Causes : Reject(i, cause)
    \/ \E k \in 1..Len(Displayed) : SpeakText(k)
    \/ UtteranceEnd

SpecSpeak == Init /\ [][NextSpeak]_vars

\* Sends made by voice and from the keyboard in each language of the select,
\* answered by the backend with a language code of its own choosing, and
\* read aloud.  The codes are the ones of the table, one more language code,
\* the empty string and the name of a property every object has.
BackendCodes == { "en", "hi", "te", "kn", "ta", "", "constructor" }

NextLang ==
    \/ \E l \in Languages : SelectLanguage(l)
    \/ (Startable => nSessions < MaxSessions) /\ StartListening
    \/ StopListening
    \/ \E k \in 1..Len(recs), f \in Fragments, isFinal \in BOOLEAN : OnResult(k, f, isFinal)
    \/ \E k \in 1..Len(recs) : OnError(k)
    \/ \E k \in 1..Len(recs) : OnEnd(k)
    \/ Len(sends) < MaxLangSends /\ TimerFire
    \/ Len(sends) < MaxLangSends /\ \E text \in TypedTexts : Submit(text)
    \/ \E i \in 1..Len(sends), lang \in BackendCodes : Resolve(i, lang)
    \/ \E i \in 1..Len(sends), cause \in Causes : Reject(i, cause)
    \/ \E k \in 1..Len(Displayed) : SpeakText(k)
    \/ UtteranceEnd

SpecLang == Init /\ [][NextLang]_vars

-----------------------------------------------------------------------------
\* Properties

ChatIds == { chats[i].id : i \in 1..Len(chats) }
MsgsOf(c) == Get(messages, c)
SendsOn(c) == { i \in 1..Len(sends) : sends[i].chatId = c }
PendingOn(c) == { i \in SendsOn(c) : sends[i].status = "pending" }
LoadingIn(c) == { k \in 1..Len(MsgsOf(c)) : MsgsOf(c)[k].isLoading }
BySender(c, who) == { k \in 1..Len(MsgsOf(c)) : MsgsOf(c)[k].sender = who }
Done(i) == sends[i].status # "pending"

\* the message at the position of call i's placeholder is a resolved bot
\* message with the placeholder's id and the reply or error text of call i
HoldsOwnResult(i) ==
    LET ms == MsgsOf(sends[i].chatId)
        k == sends[i].at
    IN  /\ k <= Len(ms)
        /\ ms[k].id = sends[i].loadingMessageId
        /\ ms[k].sender = "bot"
        /\ ~ms[k].isLoading
        /\ ms[k].text = sends[i].shown

\* the message before the position of call i's placeholder is its user message
HoldsOwnUserMessage(i) ==
    LET ms == MsgsOf(sends[i].chatId)
        k == sends[i].at - 1
    IN  /\ k >= 1
        /\ k <= Len(ms)
        /\ ms[k].sender = "user"
        /\ ms[k].text = sends[i].text
        /\ ms[k].id = sends[i].userMessageId

\* C1: when two calls were issued on the same chat while both backend calls
\* were outstanding, then once both have completed, in either order, each
\* placeholder holds the result of its own call and both user messages and
\* both bot messages are in the chat.
C1_EachPlaceholderOwnReply ==
    \A i, j \in 1..Len(sends) :
        (/\ i \in sends[j].pendingAtCall
         /\ sends[i].chatId = sends[j].chatId
         /\ Done(i) /\ Done(j))
        => /\ HoldsOwnResult(i) /\ HoldsOwnResult(j)
           /\ HoldsOwnUserMessage(i) /\ HoldsOwnUserMessage(j)

\* every chat so far was created by a handleSendMessage call
OnlySendsCreatedChats ==
    Len(chats) = Cardinality({ i \in 1..Len(sends) : sends[i].created })

\* C2: after a sequence of sendMessage calls, a chat with n completed calls
\* and none pending holds exactly n user messages and n bot messages, and
\* each call's bot message has the id of the placeholder of that call and is
\* the only message with that id.
C2_OneUserOneBotPerSend ==
    \A c \in ChatIds :
        (OnlySendsCreatedChats /\ PendingOn(c) = {})
        => /\ Cardinality(BySender(c, "user")) = Cardinality(SendsOn(c))
           /\ Cardinality(BySender(c, "bot")) = Cardinality(SendsOn(c))
           /\ \A i \in SendsOn(c) :
                /\ HoldsOwnResult(i)
                /\ Cardinality({ k \in 1..Len(MsgsOf(c)) :
                                    MsgsOf(c)[k].id = sends[i].loadingMessageId }) = 1

\* the texts of the user messages of a sequence, in order
RECURSIVE UserTexts(_)
UserTexts(ms) ==
    IF ms = <<>> THEN <<>>
    ELSE (IF Head(ms).sender = "user" THEN <<Head(ms).text>> ELSE <<>>)
            \o UserTexts(Tail(ms))

\* C3: when the only calls made are sendMessage calls, starting with no active
\* chat, exactly one chat exists and its user messages are the texts of the
\* calls in call order.
C3_OneChatInCallOrder ==
    (OnlySendsCreatedChats /\ sends # <<>>)
    => /\ Len(chats) = 1
       /\ UserTexts(MsgsOf(chats[1].id)) = [i \in 1..Len(sends) |-> sends[i].text]

\* C4 as claimed: every chat holds at most one message with isLoading = true.
C4_AtMostOneLoading ==
    \A c \in DOMAIN messages : Cardinality(LoadingIn(c)) <= 1

\* C4 as amended: every chat holds at most as many messages with
\* isLoading = true as there are calls pending on that chat.
C4_LoadingAtMostPending ==
    \A c \in DOMAIN messages : Cardinality(LoadingIn(c)) <= Cardinality(PendingOn(c))

\* two calls pending on one chat, each with its placeholder still loading
C4_Witness ==
    \E c \in DOMAIN messages :
        Cardinality(LoadingIn(c)) = 2 /\ Cardinality(PendingOn(c)) = 2

\* C5: within a chat's message sequence every message id occurs at most once.
C5_UniqueMessageIds ==
    \A c \in DOMAIN messages :
        \A k1, k2 \in 1..Len(MsgsOf(c)) :
            MsgsOf(c)[k1].id = MsgsOf(c)[k2].id => k1 = k2

\* part occurs in text as a run of consecutive tokens
Embeds(text, part) ==
    \E k \in 0..(Len(text) - Len(part)) : SubSeq(text, k + 1, k + Len(part)) = part

Completes(i) == sends[i].status = "pending" /\ sends'[i].status # "pending"
Fails(i) == sends[i].status = "pending" /\ sends'[i].status = "rejected"

\* C6 as claimed: when the backend call of a call on an existing chat fails,
\* the chat's title, lastMessage and timestamp are afterwards what they were
\* before sendMessage was called.
C6_SummaryAsBeforeSend ==
    [][\A i \in 1..Len(sends) :
          (Fails(i) /\ ~sends[i].created)
          => SummaryOf(chats', sends[i].chatId) = sends[i].before]_vars

\* C6 as amended: the handling of a failed backend call changes no chat's
\* title, lastMessage or timestamp: they stay as the call's own summary
\* update with the user's text, and whatever ran since, left them.
C6_FailureKeepsSummary ==
    [][(\E i \in 1..Len(sends) : Fails(i)) => chats' = chats]_vars

\* a failed call on an existing chat whose summary shows the call's text
C6_Witness ==
    \E i \in 1..Len(sends) :
        /\ sends[i].status = "rejected"
        /\ ~sends[i].created
        /\ SummaryOf(chats, sends[i].chatId).lastMessage = sends[i].text
        /\ SummaryOf(chats, sends[i].chatId) # sends[i].before

\* C7: the completion of a call, successful or failed, leaves at the position
\* of the call's placeholder a bot message that is not loading and carries the
\* reply, or an error text that embeds the failure's message; and when no
\* backend call is outstanding no chat holds a loading message.
C7_CompletionResolvesPlaceholder ==
    /\ []((\A i \in 1..Len(sends) : Done(i))
            => \A c \in DOMAIN messages : LoadingIn(c) = {})
    /\ [][\A i \in 1..Len(sends) :
            Completes(i)
            => /\ HoldsOwnResult(i)'
               /\ Fails(i) => \E cause \in Causes :
                                 Embeds(sends'[i].shown, ApiErrorMessage(cause))]_vars

\* C8: the keys of the conversation map are exactly the ids of the chats.
C8_KeysAreChatIds == DOMAIN messages = ChatIds

\* two chats, the older created by a first send and the newer by New Chat,
\* each with its message sequence
C8_Witness ==
    /\ Len(chats) = 2
    /\ chats[1].id # chats[2].id
    /\ \E i \in 1..Len(sends) : sends[i].created /\ sends[i].chatId = chats[2].id
    /\ DOMAIN messages = { chats[1].id, chats[2].id }

IsPrefix(a, b) == Len(a) <= Len(b) /\ SubSeq(b, 1, Len(a)) = a

\* the transcript accumulated in the buffer, as the handlers would send it
Accumulated == Trim(finalTranscriptRef)

\* C10: a step that takes accumulated final transcript out of the buffer
\* sends it, or leaves it in a pending automatic send; a recognition handler
\* that finds a non-empty transcript schedules exactly one send, carrying that
\* transcript and the backend code of the language of the session; and the
\* automatic send leaves the input empty.
C10_TranscriptSentNotDiscarded ==
    [][/\ (Accumulated # <<>> /\ ~IsPrefix(finalTranscriptRef, finalTranscriptRef'))
          => \/ \E k \in 1..Len(timers') : timers'[k].transcript = Accumulated
             \/ /\ Len(sends') = Len(sends) + 1
                /\ sends'[Len(sends')].text = Accumulated
       /\ Len(timers') > Len(timers)
          => /\ Len(timers') = Len(timers) + 1
             /\ Accumulated # <<>>
             /\ timers'[Len(timers')].transcript = Accumulated
             /\ \E k \in 1..Len(recs) :
                    timers'[Len(timers')].lang = LangCode(recs[k].closureLang, "en")
       /\ Len(timers') < Len(timers)
          => /\ Len(sends') = Len(sends) + 1
             /\ sends'[Len(sends')].text = Head(timers).transcript
             /\ sends'[Len(sends')].lang = Head(timers).lang
             /\ input' = <<>>]_vars

\* C9: the summary update of a send sets the title of a default-titled chat
\* to the text's first 30 characters followed by the marker when the text is
\* longer than 30 characters and to the whole text otherwise, leaves any
\* other title unchanged, and sets lastMessage and the timestamp.
C9_SummaryUpdateTitle ==
    [][Len(sends') = Len(sends) + 1
       => LET s == sends'[Len(sends')]
              old == IF s.created THEN DefaultTitle ELSE s.before.title
              new == SummaryOf(chats', s.chatId)
          IN  /\ (old = DefaultTitle /\ Len(s.text) > 30)
                 => /\ Len(new.title) = 33
                    /\ SubSeq(new.title, 1, 30) = SubSeq(s.text, 1, 30)
                    /\ SubSeq(new.title, 31, 33) = <<".", ".", ".">>
              /\ (old = DefaultTitle /\ Len(s.text) <= 30) => new.title = s.text
              /\ old # DefaultTitle => new.title = old
              /\ new.lastMessage = s.text
              /\ new.timestamp = now]_vars

\* a chat titled by a first text of more than 30 characters, truncated and
\* marked, that kept the title when a second, different text was sent
C9_Witness ==
    \E i, j \in 1..Len(sends) :
        /\ i < j
        /\ sends[i].chatId = sends[j].chatId
        /\ Len(sends[i].text) > 30
        /\ sends[j].text # sends[i].text
        /\ sends[j].before.title = SubSeq(sends[i].text, 1, 30) \o <<".", ".", ".">>
        /\ SummaryOf(chats, sends[j].chatId).title = sends[j].before.title
        /\ SummaryOf(chats, sends[j].chatId).lastMessage = sends[j].text

-----------------------------------------------------------------------------
\* the backend requests made so far
Requests == { <<i, r>> \in (1..Len(sends)) \X (1..2) : r <= sends[i].requests }

\* C11: every call has made exactly one backend request, whatever its
\* outcome; no step adds a request to a call already made; and the number of
\* requests grows only by a step in which the user submits a text, by one.
C11_OneRequestPerCall ==
    /\ [](\A i \in 1..Len(sends) : sends[i].requests = 1)
    /\ [][/\ \A i \in 1..Len(sends) : sends'[i].requests = sends[i].requests
          /\ Cardinality(Requests') > Cardinality(Requests)
             => /\ Cardinality(Requests') = Cardinality(Requests) + 1
                /\ \E text \in Texts : Submit(text)]_vars

\* a call failed, the user sent the same text again on the same chat, and two
\* requests were made in all
C11_Witness ==
    \E i, j \in 1..Len(sends) :
        /\ i < j
        /\ sends[i].status = "rejected"
        /\ i \notin sends[j].pendingAtCall
        /\ sends[j].text = sends[i].text
        /\ sends[j].chatId = sends[i].chatId
        /\ Cardinality(Requests) = 2

-----------------------------------------------------------------------------
\* the positions of chat c whose message a step changes
ChangedIn(c) ==
    { k \in 1..Len(MsgsOf(c)) : k > Len(Get(messages', c)) \/ messages'[c][k] # MsgsOf(c)[k] }

\* C12: a request yields a reply only when fetch responded with a status in
\* 200..299; when fetch rejects, or responds with a status outside 200..299,
\* the call fails, the text it builds for the chat embeds one error message,
\* "Failed to get response: " followed by the cause (fetch's own message, or
\* the message with the status code), and every message the failure changes
\* is a bot message with that text.
C12_FailureMessageCarriesCause ==
    [][\A i \in 1..Len(sends), o \in Outcomes, lang \in ReplyLangs :
          Complete(i, o, lang)
          => /\ sends'[i].status = "resolved"
                => /\ o.fetch = "responds" /\ o.status \in 200..299
                   /\ sends'[i].shown = ReplyTo(i)
             /\ (o.fetch = "rejects" \/ o.status \notin 200..299)
                => /\ sends'[i].status = "rejected"
                   /\ Embeds(sends'[i].shown,
                             <<"Failed to get response: ">> \o
                             (IF o.fetch = "rejects" THEN <<"Failed to fetch">>
                              ELSE <<"HTTP error! status: ", ToString(o.status)>>))
                   /\ \A k \in ChangedIn(sends[i].chatId) :
                        LET m == messages'[sends[i].chatId][k] IN
                        /\ m.sender = "bot" /\ ~m.isLoading
                        /\ m.id = sends[i].loadingMessageId
                        /\ m.text = sends'[i].shown]_vars

\* a call that failed on status 404, with the error text that carries the
\* status code shown at the position of its placeholder
C12_Witness ==
    \E i \in 1..Len(sends) :
        /\ sends[i].status = "rejected"
        /\ HoldsOwnResult(i)
        /\ Embeds(sends[i].shown, <<"Failed to get response: ", "HTTP error! status: ", "404">>)

-----------------------------------------------------------------------------
\* C13: the synthesis queue never holds more than one utterance, playing or
\* waiting; and a speak call leaves in it the new utterance alone, whatever
\* was playing when it was made.
C13_AtMostOneUtterance ==
    /\ [](Len(utterances) <= 1)
    /\ [][\A k \in 1..Len(Displayed) :
            SpeakText(k) => /\ Len(utterances') = 1
                            /\ utterances'[1].text = Displayed[k].text]_vars

\* a speak call made while another message was being spoken: the queue holds
\* the new utterance only
C13_Witness ==
    /\ Len(utterances) = 1
    /\ utterances[1].found = 1
    /\ \E i \in 1..Len(sends) : sends[i].status = "resolved" /\ utterances[1].text = ReplyTo(i)

-----------------------------------------------------------------------------
\* C14: on a window without a SpeechRecognition constructor the effect, run
\* again after every render that changes the send callback, leaves the
\* supported flag false and creates no recognition object; no session is ever
\* started, the listening flag stays unset, no automatic send is pending, and
\* every send is one the user typed and submitted.
C14_UnsupportedStaysDisabled ==
    /\ [](~platform.recognition
            => /\ ~isSpeechSupported
               /\ recs = <<>>
               /\ ~isListening
               /\ nSessions = 0
               /\ timers = <<>>
               /\ finalTranscriptRef = <<>>)
    /\ [][(~platform.recognition /\ Len(sends') > Len(sends))
            => \E text \in TypedTexts : Submit(text)]_vars

\* a window without speech recognition on which a chat was created and a text
\* was sent: the effect has run again twice
C14_Witness ==
    /\ ~platform.recognition
    /\ Len(chats) = 1
    /\ Len(sends) = 1
    /\ ~sends[1].created
    /\ ~isSpeechSupported

\* the recognition objects with an open session: start() was called and no
\* error or end event has fired on the object since
Open == { k \in 1..Len(recs) : recs[k].status \in {"started", "stopping", "aborted"} }

\* C20, its parts about the listening flag: no session starts in a step taken
\* while the flag is set; a start request that the platform rejects, the
\* current object's session not being over, leaves the flag unset; and while
\* the flag is set, some session that startListening opened has neither ended
\* nor been stopped nor reported an error.
C20_FlagFollowsSession ==
    /\ [](isListening => \E k \in 1..Len(recs) : recs[k].status \in {"started", "aborted"})
    /\ [][/\ isListening => nSessions' = nSessions
          /\ nSessions' > nSessions => (nSessions' = nSessions + 1 /\ isListening')
          /\ (StartListening /\ ~Startable) => (~isListening' /\ recs' = recs)]_vars

\* C20: at most one recognition session is open at any time, and the
\* listening flag follows the session as C20_FlagFollowsSession says.
C20_OneSessionAtATime ==
    /\ [](Cardinality(Open) <= 1)
    /\ C20_FlagFollowsSession

-----------------------------------------------------------------------------
\* the chat at position i is the only one with its id
UniqueId(i) == \A j \in 1..Len(chats) : chats[j].id = chats[i].id => j = i

\* C15: a chat with no message has the default title, and a chat with
\* messages has the title derived from its first user message; and once a
\* chat holds a message no step changes its title.  (Chats are compared by
\* their position from the end of the collection, new ones being prepended.)
C15_TitleFromFirstMessage ==
    /\ [](\A i \in 1..Len(chats) :
            UniqueId(i)
            => LET texts == UserTexts(MsgsOf(chats[i].id)) IN
               IF MsgsOf(chats[i].id) = <<>> THEN chats[i].title = DefaultTitle
               ELSE texts # <<>> /\ chats[i].title = TitleOf(texts[1]))
    /\ [][\A j \in 0..(Len(chats) - 1) :
            LET i == Len(chats) - j IN
            (UniqueId(i) /\ MsgsOf(chats[i].id) # <<>>)
            => chats'[Len(chats') - j].title = chats[i].title]_vars

-----------------------------------------------------------------------------
\* position k of chat c holds the placeholder of a call that completes in
\* this step
OwnPlaceholder(c, k) ==
    \E i \in 1..Len(sends) :
        /\ Completes(i)
        /\ sends[i].chatId = c
        /\ sends[i].at = k
        /\ MsgsOf(c)[k].id = sends[i].loadingMessageId
        /\ MsgsOf(c)[k].isLoading

\* C16: a step that sends or completes a call leaves every message of every
\* chat at its position and unchanged, except the placeholder of the call
\* that completes; it only adds messages at the end; and a user message
\* keeps its text and its sender.
C16_AppendOrReplaceOwnPlaceholder ==
    [][(Len(sends') > Len(sends) \/ \E i \in 1..Len(sends) : Completes(i))
       => \A c \in DOMAIN messages :
            LET old == MsgsOf(c)
                new == Get(messages', c)
            IN  /\ Len(new) >= Len(old)
                /\ \A k \in 1..Len(old) :
                     /\ new[k] # old[k] => OwnPlaceholder(c, k)
                     /\ old[k].sender = "user"
                        => new[k].sender = "user" /\ new[k].text = old[k].text]_vars

-----------------------------------------------------------------------------
\* the step creates a chat: New Chat, or a send made with no active chat
Creates ==
    \/ HandleNewChat
    \/ Len(sends') = Len(sends) + 1 /\ sends'[Len(sends')].created

\* C17: every step keeps the chats it finds, in their order, behind whatever
\* it adds; a step adds a chat only when it is a creation, and a creation
\* adds exactly one, at the front, with the id of the current time, and
\* makes it the active chat.
C17_NewestFirstNeverReordered ==
    [][/\ Len(chats') >= Len(chats)
       /\ \A j \in 0..(Len(chats) - 1) :
            chats'[Len(chats') - j].id = chats[Len(chats) - j].id
       /\ Len(chats') > Len(chats) => Creates
       /\ Creates => /\ Len(chats') = Len(chats) + 1
                      /\ chats'[1].id = IdOf(now)
                      /\ activeChatId' = chats'[1].id]_vars

\* two chats, the older one selected again and holding the latest activity,
\* a reply, and still behind the newer one
C17_Witness ==
    /\ Len(chats) = 2
    /\ chats[1].id # chats[2].id
    /\ activeChatId = chats[2].id
    /\ chats[2].timestamp > chats[1].timestamp
    /\ \E i \in 1..Len(sends) :
            /\ sends[i].status = "resolved"
            /\ sends[i].chatId = chats[2].id
            /\ chats[2].lastMessage = ReplyTo(i)

-----------------------------------------------------------------------------
\* the positions of the chats whose record a step changes
ChangedChats == { p \in 1..Len(chats) : p > Len(chats') \/ chats'[p] # chats[p] }

\* C18: the successful completion of a call writes its reply and the time
\* into the summary of the call's chat, whether or not calls submitted later
\* on that chat have completed before it, and changes no other chat; a failed
\* completion changes no chat; and a step that neither sends nor completes
\* leaves every lastMessage as it is.  Hence the lastMessage of a chat whose
\* calls have all completed is the reply of the one that succeeded last.
C18_LastCompletionWins ==
    [][/\ \A i \in 1..Len(sends) :
            Completes(i)
            => /\ Len(chats') = Len(chats)
               /\ Cardinality(ChangedChats) <= 1
               /\ \A p \in ChangedChats : chats[p].id = sends[i].chatId
               /\ sends'[i].status = "resolved"
                  => /\ SummaryOf(chats', sends[i].chatId).lastMessage = ReplyTo(i)
                     /\ SummaryOf(chats', sends[i].chatId).timestamp = now
               /\ sends'[i].status = "rejected" => ChangedChats = {}
       /\ ((\A i \in 1..Len(sends) : ~Completes(i)) /\ Len(sends') = Len(sends))
          => \A j \in 0..(Len(chats) - 1) :
                chats'[Len(chats') - j].lastMessage = chats[Len(chats) - j].lastMessage]_vars

-----------------------------------------------------------------------------
\* C19: the step in which a call completes, with a reply or with a failure,
\* leaves the loading indicator naming no chat; and when no call is
\* outstanding the loading indicator names no chat.
C19_IndicatorClearedOnCompletion ==
    /\ [][(\E i \in 1..Len(sends) : Completes(i)) => loadingChatId' = Null]_vars
    /\ []((\A i \in 1..Len(sends) : Done(i)) => loadingChatId = Null)

\* two calls, one answered and one failed, none outstanding, and no chat
\* marked as loading
C19_Witness ==
    /\ \E i \in 1..Len(sends) : sends[i].status = "resolved"
    /\ \E i \in 1..Len(sends) : sends[i].status = "rejected"
    /\ \A i \in 1..Len(sends) : Done(i)
    /\ loadingChatId = Null

-----------------------------------------------------------------------------
\* the tables of the claim
TagToCode(tag) ==
    CASE tag = "en-US" -> "en"
      [] tag = "hi-IN" -> "hi"
      [] tag = "te-IN" -> "te"
      [] OTHER -> "en"

CodeToLocale(code) ==
    CASE code = "en" -> "en-US"
      [] code = "hi" -> "hi-IN"
      [] code = "te" -> "te-IN"
      [] code = "kn" -> "te-IN"
      [] OTHER -> "en-US"

\* the language code speakText is called with for the k-th displayed message
SpokenCode(k) ==
    IF Displayed[k].lang \in {Null, ""} THEN "en" ELSE Displayed[k].lang

\* the mappings agree with the tables of the claim in every step that applies
\* them, for the codes in the set given: the automatic send a recognition
\* handler schedules carries the code of the handler's language tag, the
\* utterance of a speak call has the locale of the message's code, and a tag
\* of the select mapped to its code and back to a locale is the tag again
MappingsAgreeOn(codes) ==
    /\ \A k \in 1..Len(recs) :
          ((OnError(k) \/ OnEnd(k)) /\ Len(timers') > Len(timers))
          => timers'[Len(timers')].lang = TagToCode(recs[k].closureLang)
    /\ \A k \in 1..Len(Displayed) :
          (SpeakText(k) /\ SpokenCode(k) \in codes)
          => utterances'[1].lang = CodeToLocale(SpokenCode(k))
    /\ \A tag \in Languages : SpeechLang(LangCode(tag, "en")) = tag

\* C21: the language mappings are the tables of the claim, for every code
\* the backend may put on a reply.
C21_LanguageMappings == [][MappingsAgreeOn(BackendCodes \cup {"en"})]_vars

\* C21 for the codes that do not name a property of Object.prototype.
C21_MappingsOffPrototype ==
    [][MappingsAgreeOn((BackendCodes \cup {"en"}) \ ObjectPrototypeKeys)]_vars

-----------------------------------------------------------------------------
\* the messages of a sequence that have the given id
WithId(ms, id) == { k \in 1..Len(ms) : ms[k].id = id }

\* the step is a handleSendMessage call: its user message and its placeholder
\* are the last two messages of the chat it was called on (the active chat, or
\* the chat it creates when there is none)
SendLandsInTarget ==
    LET i == Len(sends')
        s == sends'[i]
        ms == Get(messages', s.chatId)
    IN  /\ s.chatId = IF activeChatId = Null THEN IdOf(now) ELSE activeChatId
        /\ Len(ms) >= 2
        /\ ms[Len(ms) - 1] = UserMessage(now, s.text)
        /\ ms[Len(ms)] = LoadingMessage(s.loadingMessageId)

\* the step completes call i: the chat the call was made on holds its reply
\* or error text under the id of its placeholder
CompletionLandsInTarget(i) ==
    LET ms == Get(messages', sends[i].chatId) IN
    \E k \in WithId(ms, sends[i].loadingMessageId) :
        /\ ms[k].sender = "bot"
        /\ ~ms[k].isLoading
        /\ ms[k].text = sends'[i].shown

\* every chat but the one with the given id keeps its message sequence
OthersUnchanged(chatId) ==
    \A c \in (DOMAIN messages \cup DOMAIN messages') \ {chatId} :
        c \in DOMAIN messages /\ c \in DOMAIN messages' /\ messages'[c] = messages[c]

\* a call is pending on a chat that is not the active one
PendingElsewhere(i) == sends[i].status = "pending" /\ sends[i].chatId # activeChatId

TargetChatIn(steps) ==
    /\ (Len(sends') > Len(sends))
       => SendLandsInTarget /\ OthersUnchanged(sends'[Len(sends')].chatId)
    /\ \A i \in 1..Len(sends) :
          (Completes(i) /\ steps)
          => CompletionLandsInTarget(i) /\ OthersUnchanged(sends[i].chatId)

\* C22: a call's user message and placeholder are appended to the chat the
\* call was made on, its reply or error text is shown in that same chat
\* whatever chat is active when the backend call completes, and neither step
\* changes the message sequence of any other chat.
C22_MessagesLandInTargetChat == [][TargetChatIn(TRUE)]_vars

\* the same for the completions that find every chat with an id of its own
C22_TargetChatWithUniqueIds ==
    [][TargetChatIn(\A p \in 1..Len(chats) : UniqueId(p))]_vars

\* a reply shown in a chat that was not the active one when it arrived
C22_Landed ==
    \E i \in 1..Len(sends) :
        /\ sends[i].status = "resolved"
        /\ sends[i].chatId # activeChatId
        /\ HoldsOwnResult(i)

-----------------------------------------------------------------------------
\* the calls pending on chat c whose placeholder is in the chat, still loading
ShownPending(c) ==
    { i \in PendingOn(c) :
        \E k \in WithId(MsgsOf(c), sends[i].loadingMessageId) : MsgsOf(c)[k].isLoading }

\* C23: whenever the loading indicator names a chat, that chat's message
\* sequence holds a loading message that is the placeholder of a call whose
\* backend call has not completed.
C23_IndicatorHasPendingPlaceholder ==
    loadingChatId # Null => ShownPending(loadingChatId) # {}

\* the same in the states where every chat has an id of its own
C23_IndicatorWithUniqueIds ==
    (\A p \in 1..Len(chats) : UniqueId(p))
    => C23_IndicatorHasPendingPlaceholder

\* the indicator names a chat other than the active one, where a call is
\* pending with its placeholder shown, after another call has completed
C23_IndicatorOnPending ==
    /\ loadingChatId \notin {Null, activeChatId}
    /\ ShownPending(loadingChatId) # {}
    /\ \E i \in 1..Len(sends) : Done(i)

====
